---- MODULE Spec2Model ----
(***************************************************************************)
(* A model of idb/fileformat.py: the id0 B-tree index with its search      *)
(* strategies and cursor, the id1 segment table with its flags buffer, the *)
(* IDB address API and flags predicates over the id1, the .idb container   *)
(* (header, sections, validate) and a Page instance with its entry cache.  *)
(* Head, NextHead and PrevHead are also run one loop turn per step, and    *)
(* the entry cache is also filled by two readers whose steps interleave.   *)
(*                                                                         *)
(* Byte strings are sequences of naturals, compared as Python compares     *)
(* bytes.  A python exception is the string held by the field or variable  *)
(* `raised` ("none" when the call returned).  Entry numbers are 0-based,   *)
(* as in the source; TLA+ sequences are 1-based.                           *)
(***************************************************************************)
EXTENDS Integers, Sequences, FiniteSets, TLC

VARIABLES
    pages,          \* ID0.buf seen as its pages: page number -> Page fields
    root_page,      \* ID0.root_page
    record_count,   \* ID0.record_count
    path,           \* Cursor.path, as the page numbers of the pages it holds
    entry,          \* Cursor.entry
    entry_number,   \* Cursor.entry_number
    raised,         \* the exception the last ID0/Cursor call raised, or "none"
    log,            \* the calls made on the cursor that returned, with the key read after each
    last,           \* the last call made on the index or the cursor, and its argument
    segments,       \* ID1.segments: the SegmentDescriptors
    buffer,         \* ID1.buffer, as 32-bit little-endian words
    id1call,        \* the last call made on the ID1 or on the IDB address API, with its arguments
    id1ret,         \* what that call returned or raised
    walk,           \* a Head / NextHead / PrevHead call in progress: its loop variables
    file,           \* the bytes of an .idb file: its header fields and the sections at its offsets
    idb,            \* the IDB object made from the file: header, sections and the decoded sections
    fcall,          \* the last call made on the IDB object
    fraised,        \* the exception that call raised (type "none" when it returned)
    page_buf,       \* the buffer of a Page: ppointer, entry_count and the raw entries
    page_entries,   \* Page._entries of that Page instance
    pcall,          \* the last call made on the Page instance
    pret,           \* what that call returned or raised
    readers         \* the threads that read the Page instance: where each is in its call, and its locals

treevars == <<pages, root_page, record_count, path, entry, entry_number, raised, log, last>>
id1vars == <<segments, buffer, id1call, id1ret, walk>>
filevars == <<file, idb, fcall, fraised>>
pagevars == <<page_buf, page_entries, pcall, pret, readers>>
vars == <<pages, root_page, record_count, path, entry, entry_number, raised, log, last,
          segments, buffer, id1call, id1ret, walk,
          file, idb, fcall, fraised,
          page_buf, page_entries, pcall, pret, readers>>

----------------------------------------------------------------------------
(* Bounds of the model. *)

\* keys are the byte strings of length 0..MaxKeyLen
MaxKeyLen == 3
\* a cursor walk changes direction at most MaxTurns times
MaxTurns == 1
\* effective addresses are 0..MaxEa
MaxEa == 5
\* an ID1 holds at most MaxSegs segments
MaxSegs == 2

----------------------------------------------------------------------------
(* Byte strings. *)

Min(a, b) == IF a <= b THEN a ELSE b

\* bytes.__lt__ : unsigned lexicographic order, a proper prefix being smaller
KeyLess(a, b) ==
    \E i \in 1..Len(b) :
        /\ i <= Len(a) + 1
        /\ \A j \in 1..(i - 1) : a[j] = b[j]
        /\ (i = Len(a) + 1 \/ a[i] < b[i])

\* bytes.startswith
StartsWith(s, p) == Len(p) <= Len(s) /\ SubSeq(s, 1, Len(p)) = p

\* pkey[:common_prefix] : a python slice stops at the end of the string
Slice(s, n) == SubSeq(s, 1, Min(n, Len(s)))

----------------------------------------------------------------------------
(* Page: one node of the B-tree.  `contents` holds, per entry, the fields   *)
(* of its entry pointer (page for a branch, common_prefix for a leaf) and   *)
(* of its body (the stored key bytes and the value).                        *)

NoneEntry == [key |-> <<>>, value |-> <<>>, page |-> 0, none |-> TRUE]
NoneNumber == -1

\* Page.is_leaf
is_leaf(page) == page.ppointer = 0

\* LeafEntry.pcb__key / BranchEntry : the entry parsed from one raw entry,
\* `key` being the key of the entry before it in the page
parse_entry(page, raw, key) ==
    IF is_leaf(page)
    THEN [key |-> Slice(key, raw.common_prefix) \o raw.key_bytes,
          value |-> raw.value, page |-> 0]
    ELSE [key |-> raw.key_bytes, value |-> raw.value, page |-> raw.page]

RECURSIVE load_from(_, _, _, _)
load_from(page, i, key, acc) ==
    IF i >= page.entry_count
    THEN acc
    ELSE LET e == parse_entry(page, page.contents[i + 1], key)
         IN  load_from(page, i + 1, e.key, Append(acc, e))

\* Page._load_entries on a fresh Page: the list the page's entry cache holds
load_entries(page) == load_from(page, 0, <<>>, <<>>)

\* Page.get_entries
get_entries(page) == load_entries(page)

\* Page.get_entry : python list indexing, a negative index counting from the end
get_entry(page, n) ==
    LET es == load_entries(page)
    IN  IF n >= Len(es)
        THEN [raised |-> "KeyError", entry |-> NoneEntry]
        ELSE IF n >= 0
        THEN [raised |-> "none", entry |-> es[n + 1]]
        ELSE IF Len(es) + n >= 0
        THEN [raised |-> "none", entry |-> es[Len(es) + n + 1]]
        ELSE [raised |-> "IndexError", entry |-> NoneEntry]

Least(S) == CHOOSE x \in S : \A y \in S : x <= y

\* Cursor.find_index : a linear scan that returns at the first hit
find_index(page, key) ==
    LET es == get_entries(page)
        hits == IF is_leaf(page)
                THEN {i \in 0..(Len(es) - 1) : key = es[i + 1].key}
                ELSE {i \in 0..(Len(es) - 1) :
                        key = es[i + 1].key \/ KeyLess(key, es[i + 1].key)}
    IN  IF hits # {}
        THEN [raised |-> "none", index |-> Least(hits)]
        ELSE [raised |-> "KeyError", index |-> NoneNumber]

\* ID0.get_page, on the page numbers the buffer holds
get_page(pgs, page_number) == pgs[page_number]

\* the state of a Cursor when a call on it returns or raises
Cur(r, p, e, n) == [raised |-> r, path |-> p, entry |-> e, entry_number |-> n]

----------------------------------------------------------------------------
(* The search strategies. *)

\* ExactMatchStrategy._find, lines 323-328: the page to descend into
exact_next_page(page, en, is_largest) ==
    IF en = 0
    THEN page.ppointer
    ELSE IF is_largest
    THEN get_entry(page, page.entry_count - 1).entry.page
    ELSE get_entry(page, en - 1).entry.page

\* exact_hit, were a search to end on the entries of leaf pages only
exact_hit_leaf_only(e, key) == e.key = key /\ e.page = 0

\* ExactMatchStrategy._find, line 315: the search ends on this entry
exact_hit(e, key) == e.key = key

RECURSIVE ExactMatch_find(_, _, _, _)
\* ExactMatchStrategy._find, the cursor's path being p when it is called
ExactMatch_find(pgs, page_number, key, p) ==
    LET page == get_page(pgs, page_number)
        np == Append(p, page_number)
        fi == find_index(page, key)
        is_largest == fi.raised = "KeyError"
        en == IF is_largest THEN page.entry_count - 1 ELSE fi.index
        ge == get_entry(page, en)
    IN  IF ge.raised # "none"
        THEN Cur(ge.raised, np, NoneEntry, NoneNumber)
        ELSE IF exact_hit(ge.entry, key)
        THEN Cur("none", np, ge.entry, en)
        ELSE IF is_leaf(page)
        THEN Cur("KeyError", np, NoneEntry, NoneNumber)
        ELSE ExactMatch_find(pgs, exact_next_page(page, en, is_largest), key, np)

\* prefix_leaf_scan, were the first entry not smaller than key taken for a match
prefix_leaf_scan_ge(es, key) ==
    LET stops == {i \in 0..(Len(es) - 1) :
                    StartsWith(es[i + 1].key, key) \/ KeyLess(key, es[i + 1].key)}
    IN  IF stops = {} THEN NoneNumber ELSE Least(stops)

\* PrefixMatchStrategy._find, lines 347-356: the scan of a leaf page.
\* The index of the first entry that starts with key, when no entry before
\* it is greater than key; -1 when the scan breaks or runs out.
prefix_leaf_scan(es, key) ==
    LET stops == {i \in 0..(Len(es) - 1) :
                    StartsWith(es[i + 1].key, key) \/ KeyLess(key, es[i + 1].key)}
    IN  IF stops = {} THEN NoneNumber
        ELSE IF StartsWith(es[Least(stops) + 1].key, key) THEN Least(stops)
        ELSE NoneNumber

\* PrefixMatchStrategy._find, lines 358-377: the scan of a branch page.
\* Either the entry equal to key, or the page to descend into.
prefix_branch_scan(page, key) ==
    LET es == get_entries(page)
        stops == {i \in 0..(Len(es) - 1) :
                    \/ es[i + 1].key = key
                    \/ StartsWith(es[i + 1].key, key)
                    \/ KeyLess(key, es[i + 1].key)}
        n == IF stops = {} THEN Len(es) ELSE Least(stops)
        next_page == IF n = 0 THEN page.ppointer ELSE es[n].page
    IN  IF n < Len(es) /\ es[n + 1].key = key
        THEN [found |-> TRUE, index |-> n, next_page |-> 0]
        ELSE [found |-> FALSE, index |-> NoneNumber, next_page |-> next_page]

RECURSIVE PrefixMatch_find(_, _, _, _)
\* PrefixMatchStrategy._find
PrefixMatch_find(pgs, page_number, key, p) ==
    LET page == get_page(pgs, page_number)
        np == Append(p, page_number)
        es == get_entries(page)
    IN  IF is_leaf(page)
        THEN LET i == prefix_leaf_scan(es, key)
             IN  IF i # NoneNumber
                 THEN Cur("none", np, es[i + 1], i)
                 ELSE Cur("KeyError", np, NoneEntry, NoneNumber)
        ELSE LET b == prefix_branch_scan(page, key)
             IN  IF b.found
                 THEN Cur("none", np, es[b.index + 1], b.index)
                 ELSE PrefixMatch_find(pgs, b.next_page, key, np)

\* ID0.find with EXACT_MATCH, on a new Cursor
ID0_find(pgs, root, key) == ExactMatch_find(pgs, root, key, <<>>)

\* ID0.find_prefix
ID0_find_prefix(pgs, root, key) == PrefixMatch_find(pgs, root, key, <<>>)

----------------------------------------------------------------------------
(* Cursor.next and Cursor.prev.  Each takes the index's pages and the       *)
(* cursor's fields and gives the cursor's fields when the call ends.        *)

Front(s) == SubSeq(s, 1, Len(s) - 1)
Top(s) == s[Len(s)]

RECURSIVE next_ascend(_, _, _)
\* Cursor.next, lines 451-466: pop pages until one holds an entry greater than start_key
next_ascend(pgs, p, start_key) ==
    IF Len(p) <= 1
    THEN [raised |-> "IndexError", path |-> p, index |-> NoneNumber]
    ELSE LET np == Front(p)
             fi == find_index(get_page(pgs, Top(np)), start_key)
         IN  IF fi.raised = "KeyError"
             THEN next_ascend(pgs, np, start_key)
             ELSE [raised |-> "none", path |-> np, index |-> fi.index]

\* min_edge, were the descent to stop at the child page
min_edge_stop(pgs, p, page_number) == Append(p, page_number)

RECURSIVE min_edge_leaf_only(_, _, _)
\* min_edge, were only the leaf it arrives at appended to the path
min_edge_leaf_only(pgs, p, page_number) ==
    LET next_page == get_page(pgs, page_number)
    IN  IF is_leaf(next_page)
        THEN Append(p, page_number)
        ELSE min_edge_leaf_only(pgs, p, next_page.ppointer)

RECURSIVE min_edge(_, _, _)
\* Cursor.next, lines 487-492: follow ppointer down to a leaf, appending each page
min_edge(pgs, p, page_number) ==
    LET next_page == get_page(pgs, page_number)
    IN  IF is_leaf(next_page)
        THEN Append(p, page_number)
        ELSE min_edge(pgs, Append(p, page_number), next_page.ppointer)

\* Cursor.next
Cursor_next(pgs, p, e, en) ==
    LET current_page == get_page(pgs, Top(p))
    IN  IF is_leaf(current_page)
        THEN IF en = current_page.entry_count - 1
             THEN LET a == next_ascend(pgs, p, e.key)
                  IN  IF a.raised # "none"
                      THEN Cur(a.raised, a.path, e, en)
                      ELSE Cur("none", a.path,
                               get_entry(get_page(pgs, Top(a.path)), a.index).entry,
                               a.index)
             ELSE LET ge == get_entry(current_page, en + 1)
                  IN  IF ge.raised # "none"
                      THEN Cur(ge.raised, p, e, en)
                      ELSE Cur("none", p, ge.entry, en + 1)
        ELSE LET np == min_edge(pgs, p, e.page)
                 ge == get_entry(get_page(pgs, Top(np)), 0)
             IN  IF ge.raised # "none"
                 THEN Cur(ge.raised, np, e, en)
                 ELSE Cur("none", np, ge.entry, 0)

RECURSIVE prev_ascend_like_next(_, _, _)
\* prev_ascend, were a page whose entries are all smaller passed over as next() passes it over
prev_ascend_like_next(pgs, p, start_key) ==
    IF Len(p) <= 1
    THEN [raised |-> "IndexError", path |-> p, index |-> NoneNumber]
    ELSE LET np == Front(p)
             fi == find_index(get_page(pgs, Top(np)), start_key)
         IN  IF fi.raised = "KeyError" \/ fi.index = 0
             THEN prev_ascend_like_next(pgs, np, start_key)
             ELSE [raised |-> "none", path |-> np, index |-> fi.index]

RECURSIVE prev_ascend(_, _, _)
\* Cursor.prev, lines 514-531: pop pages until one holds an entry smaller than start_key
prev_ascend(pgs, p, start_key) ==
    IF Len(p) <= 1
    THEN [raised |-> "IndexError", path |-> p, index |-> NoneNumber]
    ELSE LET np == Front(p)
             current_page == get_page(pgs, Top(np))
             fi == find_index(current_page, start_key)
             n == IF fi.raised = "KeyError" THEN current_page.entry_count ELSE fi.index
         IN  IF n = 0
             THEN prev_ascend(pgs, np, start_key)
             ELSE [raised |-> "none", path |-> np, index |-> n]

\* prev_child, were it to take the child page to the right of the entry
prev_child_right(current_page, en) ==
    LET ge == get_entry(current_page, en)
    IN  [raised |-> ge.raised, page |-> ge.entry.page]

\* Cursor.prev, lines 553-556: the child page to the left of entry en of a branch page
prev_child(current_page, en) ==
    IF en = 0
    THEN [raised |-> "none", page |-> current_page.ppointer]
    ELSE LET ge == get_entry(current_page, en - 1)
         IN  [raised |-> ge.raised, page |-> ge.entry.page]

\* max_edge, were the descent to stop at the child page
max_edge_stop(pgs, p, page_number) == [raised |-> "none", path |-> Append(p, page_number)]

RECURSIVE max_edge(_, _, _)
\* Cursor.prev, lines 558-563: follow the last entry's page down to a leaf
max_edge(pgs, p, page_number) ==
    LET next_page == get_page(pgs, page_number)
    IN  IF is_leaf(next_page)
        THEN [raised |-> "none", path |-> Append(p, page_number)]
        ELSE LET ge == get_entry(next_page, next_page.entry_count - 1)
             IN  IF ge.raised # "none"
                 THEN [raised |-> ge.raised, path |-> Append(p, page_number)]
                 ELSE max_edge(pgs, Append(p, page_number), ge.entry.page)

\* Cursor.prev
Cursor_prev(pgs, p, e, en) ==
    LET current_page == get_page(pgs, Top(p))
    IN  IF is_leaf(current_page)
        THEN IF en = 0
             THEN LET a == prev_ascend(pgs, p, e.key)
                  IN  IF a.raised # "none"
                      THEN Cur(a.raised, a.path, e, en)
                      ELSE Cur("none", a.path,
                               get_entry(get_page(pgs, Top(a.path)), a.index - 1).entry,
                               a.index - 1)
             ELSE LET ge == get_entry(current_page, en - 1)
                  IN  IF ge.raised # "none"
                      THEN Cur(ge.raised, p, e, en)
                      ELSE Cur("none", p, ge.entry, en - 1)
        ELSE LET c == prev_child(current_page, en)
             IN  IF c.raised # "none"
                 THEN Cur(c.raised, p, e, en)
                 ELSE LET m == max_edge(pgs, p, c.page)
                          leaf == get_page(pgs, Top(m.path))
                          ge == get_entry(leaf, leaf.entry_count - 1)
                      IN  IF m.raised # "none"
                          THEN Cur(m.raised, m.path, e, en)
                          ELSE IF ge.raised # "none"
                          THEN Cur(ge.raised, m.path, e, en)
                          ELSE Cur("none", m.path, ge.entry, leaf.entry_count - 1)

----------------------------------------------------------------------------
(* The index files the model reads: well-formed B-trees.  A tree is one of  *)
(* the page layouts below, its entries filled in key order with a run of    *)
(* consecutive keys of the key universe from which at most one key is left  *)
(* out.                                                                     *)

\* two byte values, enough to order keys at every position
Byte == {1, 2}
Keys == UNION {[1..n -> Byte] : n \in 0..MaxKeyLen}

RECURSIVE SortKeys(_)
SortKeys(S) ==
    IF S = {} THEN <<>>
    ELSE LET m == CHOOSE x \in S : \A y \in S : x = y \/ KeyLess(x, y)
         IN  <<m>> \o SortKeys(S \ {m})

SortedKeys == SortKeys(Keys)

\* the length of the longest common prefix of two byte strings
CommonPrefix(a, b) ==
    CHOOSE n \in 0..Min(Len(a), Len(b)) :
        /\ SubSeq(a, 1, n) = SubSeq(b, 1, n)
        /\ (n < Min(Len(a), Len(b)) => a[n + 1] # b[n + 1])

Leaf(ranks) == [ppointer |-> 0, ents |-> [i \in 1..Len(ranks) |-> [rank |-> ranks[i], page |-> 0]]]
Branch(pp, ents) == [ppointer |-> pp, ents |-> ents]
E(rank, page) == [rank |-> rank, page |-> page]

\* a root leaf page without entries
LayoutEmpty == [root |-> 1, count |-> 0, pages |-> <<Leaf(<<>>)>>]
\* a root leaf page with three entries
LayoutLeaf == [root |-> 1, count |-> 3, pages |-> <<Leaf(<<1, 2, 3>>)>>]
\* a root branch page with one entry over two leaves
LayoutOne == [root |-> 3, count |-> 4,
              pages |-> <<Leaf(<<1, 2>>), Leaf(<<4>>), Branch(1, <<E(3, 2)>>)>>]
\* a root branch page with two entries over three leaves
LayoutTwo == [root |-> 1, count |-> 6,
              pages |-> <<Branch(2, <<E(2, 3), E(5, 4)>>),
                          Leaf(<<1>>), Leaf(<<3, 4>>), Leaf(<<6>>)>>]
\* three levels, every branch page with one entry
LayoutDeep == [root |-> 1, count |-> 7,
               pages |-> <<Branch(2, <<E(4, 3)>>),
                           Branch(4, <<E(2, 5)>>), Branch(6, <<E(6, 7)>>),
                           Leaf(<<1>>), Leaf(<<3>>), Leaf(<<5>>), Leaf(<<7>>)>>]

Layouts == {LayoutEmpty, LayoutLeaf, LayoutOne, LayoutTwo, LayoutDeep}

\* the keys stored: count keys of SortedKeys from the one numbered start,
\* the key after the gap-th of them left out (gap = 0: none)
StoredKeys(count, start, gap) ==
    [i \in 1..count |-> SortedKeys[start + i - 1 + (IF gap > 0 /\ i > gap THEN 1 ELSE 0)]]

ValueOf(rank) == <<rank, rank>>

\* the fields and raw entries of one page of a layout, ks being the keys stored
PageOf(lp, ks) ==
    [ppointer |-> lp.ppointer,
     entry_count |-> Len(lp.ents),
     contents |->
        [i \in 1..Len(lp.ents) |->
            LET k == ks[lp.ents[i].rank]
                cp == IF lp.ppointer = 0 /\ i > 1
                      THEN CommonPrefix(ks[lp.ents[i - 1].rank], k)
                      ELSE 0
            IN  [page |-> lp.ents[i].page,
                 common_prefix |-> cp,
                 key_bytes |-> SubSeq(k, cp + 1, Len(k)),
                 value |-> ValueOf(lp.ents[i].rank)]]]

TreeOf(layout, ks) == [n \in 1..Len(layout.pages) |-> PageOf(layout.pages[n], ks)]

ID1Idle ==
    /\ segments = <<>>
    /\ buffer = [page_count |-> 0, words |-> <<>>]
    /\ id1call = [op |-> "none", ea |-> 0]
    /\ id1ret = [raised |-> "none"]
    /\ walk = [pc |-> "idle"]

\* no file is open
FileIdle ==
    /\ file = [signature |-> "", sig2 |-> "", version |-> 0, offsets |-> <<>>, at |-> <<>>]
    /\ idb = [sections |-> <<>>]
    /\ fcall = "none"
    /\ fraised = [type |-> "none", msg |-> ""]

\* no Page instance is held
PageIdle ==
    /\ page_buf = [ppointer |-> 0, entry_count |-> 0, contents |-> <<>>]
    /\ page_entries = <<>>
    /\ pcall = [op |-> "none"]
    /\ pret = [raised |-> "none"]
    /\ readers = <<>>

NoCall == [op |-> "none", key |-> <<>>]

Init ==
    /\ \E layout \in Layouts, start \in 1..Len(SortedKeys) : \E gap \in 0..layout.count :
        /\ gap = 0 \/ gap < layout.count
        /\ start + layout.count - 1 + (IF gap > 0 THEN 1 ELSE 0) <= Len(SortedKeys)
        /\ pages = TreeOf(layout, StoredKeys(layout.count, start, gap))
        /\ root_page = layout.root
        /\ record_count = layout.count
    /\ path = <<>>
    /\ entry = NoneEntry
    /\ entry_number = NoneNumber
    /\ raised = "none"
    /\ log = <<>>
    /\ last = NoCall
    /\ ID1Idle
    /\ FileIdle
    /\ PageIdle

\* how often a walk changes between next and prev
Turns(ops) == Cardinality({i \in 2..(Len(ops) - 1) : ops[i] # ops[i + 1]})

Ops == [i \in 1..Len(log) |-> log[i].op]

Returned(c, op, key) ==
    /\ path' = c.path
    /\ entry' = c.entry
    /\ entry_number' = c.entry_number
    /\ raised' = c.raised
    /\ last' = [op |-> op, key |-> key]
    /\ log' = IF c.raised = "none" THEN Append(log, [op |-> op, key |-> c.entry.key]) ELSE log
    /\ UNCHANGED <<pages, root_page, record_count>>
    /\ UNCHANGED id1vars
    /\ UNCHANGED filevars
    /\ UNCHANGED pagevars

\* c = idb.id0.find(key)
Find ==
    \E key \in Keys :
        /\ last = NoCall
        /\ Returned(ID0_find(pages, root_page, key), "find", key)

\* c = idb.id0.find_prefix(key)
FindPrefix ==
    \E key \in Keys :
        /\ last = NoCall
        /\ Returned(ID0_find_prefix(pages, root_page, key), "find_prefix", key)

\* c.next()
Next_ ==
    /\ last # NoCall
    /\ raised = "none"
    /\ Turns(Append(Ops, "next")) <= MaxTurns
    /\ Returned(Cursor_next(pages, path, entry, entry_number), "next", <<>>)

\* c.prev()
Prev ==
    /\ last # NoCall
    /\ raised = "none"
    /\ Turns(Append(Ops, "prev")) <= MaxTurns
    /\ Returned(Cursor_prev(pages, path, entry, entry_number), "prev", <<>>)

Next == Find \/ FindPrefix \/ Next_ \/ Prev

Spec == Init /\ [][Next]_vars

----------------------------------------------------------------------------
(* ID1: the segment table and the flags buffer. *)

\* ID1.PAGE_SIZE, in 32-bit words
PAGE_WORDS == 2048

RECURSIVE offset_after(_, _)
\* ID1.pcb_segment_count, line 702: offset after the loop has run over the first i segments
offset_after(bs, i) ==
    IF i = 0 THEN 0
    ELSE offset_after(bs, i - 1) + 4 * (bs[i].end - bs[i].start)

\* ID1.pcb_segment_count: the SegmentDescriptors of the SegmentBounds bs
pcb_segment_count(bs) ==
    [i \in 1..Len(bs) |-> [bounds |-> bs[i], offset |-> offset_after(bs, i)]]

\* the 0-based indexes of the segments that contain ea
containing(segs, ea) ==
    {i \in 0..(Len(segs) - 1) : segs[i + 1].bounds.start <= ea /\ ea < segs[i + 1].bounds.end}

\* ID1.get_segment
get_segment(segs, ea) ==
    IF containing(segs, ea) = {}
    THEN [raised |-> "KeyError"]
    ELSE [raised |-> "none", segment |-> segs[Least(containing(segs, ea)) + 1]]

\* next_of, were the segment after the last one the first
next_of_wrapping(segs, i) ==
    IF i = Len(segs)
    THEN [raised |-> "IndexError"]
    ELSE [raised |-> "none", segment |-> segs[((i + 1) % Len(segs)) + 1]]

\* ID1.get_next_segment, lines 742-747: the result for the segment at index i
next_of(segs, i) ==
    IF i = Len(segs)
    THEN [raised |-> "IndexError"]
    ELSE IF i + 1 < Len(segs)
    THEN [raised |-> "none", segment |-> segs[i + 2]]
    ELSE [raised |-> "IndexError"]

\* ID1.get_next_segment
get_next_segment(segs, ea) ==
    IF containing(segs, ea) = {}
    THEN [raised |-> "KeyError"]
    ELSE next_of(segs, Least(containing(segs, ea)))

\* struct.unpack_from('<I', buf, offset).  The buffer is held as the words
\* written for the segments' bytes and the count of its pages; the words
\* after those written are padding.
unpack_from(buf, offset) ==
    IF offset + 4 <= 4 * Len(buf.words)
    THEN [raised |-> "none", offset |-> offset, flags |-> buf.words[(offset \div 4) + 1]]
    ELSE IF offset + 4 <= 4 * PAGE_WORDS * buf.page_count
    THEN [raised |-> "none", offset |-> offset, flags |-> 0]
    ELSE [raised |-> "struct.error", offset |-> offset]

\* ID1.get_flags
get_flags(segs, buf, ea) ==
    LET seg == get_segment(segs, ea)
    IN  IF seg.raised # "none"
        THEN [raised |-> seg.raised]
        ELSE unpack_from(buf, seg.segment.offset + 4 * (ea - seg.segment.bounds.start))

\* the segment tables the model reads: ascending, disjoint segments
Bounds == {b \in [start : 0..MaxEa, end : 0..(MaxEa + 1)] : b.start <= b.end}
Tables ==
    {bs \in UNION {[1..n -> Bounds] : n \in 0..MaxSegs} :
        \A i \in 1..(Len(bs) - 1) : bs[i].end <= bs[i + 1].start}

\* the flags word stored for the w-th byte of the address space (0-based):
\* FF_IVL and the byte value w
FlagsOf(w) == 256 + (w % 256)

\* ID1.pcb_page_count: the buffer is page_count pages, the least number of
\* pages that holds one word per byte of every segment
BufferOf(bs) ==
    LET n == offset_after(bs, Len(bs)) \div 4
    IN  [page_count |-> (n + PAGE_WORDS - 1) \div PAGE_WORDS,
         words |-> [w \in 1..n |-> FlagsOf(w - 1)]]

ID0Idle ==
    /\ pages = <<>>
    /\ root_page = 0
    /\ record_count = 0
    /\ path = <<>>
    /\ entry = NoneEntry
    /\ entry_number = NoneNumber
    /\ raised = "none"
    /\ log = <<>>
    /\ last = NoCall
InitID1 ==
    /\ \E bs \in Tables :
        /\ segments = pcb_segment_count(bs)
        /\ buffer = BufferOf(bs)
    /\ id1call = [op |-> "none", ea |-> 0]
    /\ id1ret = [raised |-> "none"]
    /\ walk = [pc |-> "idle"]
    /\ ID0Idle
    /\ FileIdle
    /\ PageIdle

Called(op, ea, ret) ==
    /\ id1call' = [op |-> op, ea |-> ea]
    /\ id1ret' = ret
    /\ UNCHANGED <<segments, buffer, walk>>
    /\ UNCHANGED treevars
    /\ UNCHANGED filevars
    /\ UNCHANGED pagevars

\* idb.id1.get_segment(ea)
GetSegment == \E ea \in 0..(MaxEa + 1) : Called("get_segment", ea, get_segment(segments, ea))

\* idb.id1.get_next_segment(ea)
GetNextSegment ==
    \E ea \in 0..(MaxEa + 1) : Called("get_next_segment", ea, get_next_segment(segments, ea))

\* idb.id1.get_flags(ea)
GetFlags == \E ea \in 0..(MaxEa + 1) : Called("get_flags", ea, get_flags(segments, buffer, ea))

NextID1 == GetSegment \/ GetNextSegment \/ GetFlags

SpecID1 == InitID1 /\ [][NextID1]_vars

----------------------------------------------------------------------------
(* The IDB address API over the id1: flags predicates, bytes and heads. *)

\* FLAGS, lines 1279-1291 and 1488-1491
MS_VAL == 255
FF_IVL == 256
MS_CLS == 1536
FF_CODE == 1536
FF_DATA == 1024
FF_TAIL == 512
FF_UNK == 0

RECURSIVE And(_, _)
\* python's a & b on non-negative integers
And(a, b) ==
    IF a = 0 \/ b = 0 THEN 0
    ELSE (a % 2) * (b % 2) + 2 * And(a \div 2, b \div 2)

\* IDB.hasValue
hasValue(flags) == And(flags, FF_IVL) > 0

\* IDB.isCode, IDB.isData, IDB.isTail, IDB.isUnknown
isCode(flags) == And(flags, MS_CLS) = FF_CODE
isData(flags) == And(flags, MS_CLS) = FF_DATA
isTail(flags) == And(flags, MS_CLS) = FF_TAIL
isUnknown(flags) == And(flags, MS_CLS) = FF_UNK

\* IDB.isHead
isHead(flags) == isCode(flags) \/ isData(flags)

\* IDB.SegStart
SegStart(segs, ea) ==
    LET seg == get_segment(segs, ea)
    IN  IF seg.raised # "none"
        THEN [raised |-> seg.raised]
        ELSE [raised |-> "none", start |-> seg.segment.bounds.start]

\* IDB.IdbByte
IdbByte(segs, buf, ea) ==
    LET f == get_flags(segs, buf, ea)
    IN  IF f.raised # "none" THEN [raised |-> f.raised]
        ELSE IF hasValue(f.flags)
        THEN [raised |-> "none", byte |-> And(f.flags, MS_VAL)]
        ELSE [raised |-> "KeyError"]

RECURSIVE IDB_Head(_, _, _)
\* IDB.Head: an exception of GetFlags leaves the loop; `at` is the address it was raised for
IDB_Head(segs, buf, ea) ==
    LET f == get_flags(segs, buf, ea)
    IN  IF f.raised # "none" THEN [raised |-> f.raised, at |-> ea]
        ELSE IF isHead(f.flags) THEN [raised |-> "none", ea |-> ea]
        ELSE IDB_Head(segs, buf, ea - 1)

\* head_above, were the first address that has flags taken for a head
head_above_any(segs, buf, ea) ==
    LET f == get_flags(segs, buf, ea)
    IN  IF f.raised # "none" THEN [raised |-> f.raised, at |-> ea]
        ELSE [raised |-> "none", ea |-> ea]

RECURSIVE head_above(_, _, _)
\* IDB.NextHead, lines 976-981: the loop, entered at ea
head_above(segs, buf, ea) ==
    LET f == get_flags(segs, buf, ea)
    IN  IF f.raised # "none" THEN [raised |-> f.raised, at |-> ea]
        ELSE IF isHead(f.flags) THEN [raised |-> "none", ea |-> ea]
        ELSE head_above(segs, buf, ea + 1)

\* IDB.NextHead
NextHead(segs, buf, ea) == head_above(segs, buf, ea + 1)

\* IDB.PrevHead
PrevHead(segs, buf, ea) ==
    LET h == IDB_Head(segs, buf, ea)
    IN  IF h.raised # "none" THEN h ELSE IDB_Head(segs, buf, h.ea - 1)

RECURSIVE bytes_from(_, _, _, _, _)
\* IDB.GetManyBytes, lines 1000-1003: the loop over range(ea, ea + size), at i with ret = acc
bytes_from(segs, buf, i, stop, acc) ==
    IF i >= stop THEN [raised |-> "none", bytes |-> acc]
    ELSE LET b == IdbByte(segs, buf, i)
         IN  IF b.raised # "none" THEN [raised |-> b.raised]
             ELSE bytes_from(segs, buf, i + 1, stop, Append(acc, b.byte))

\* IDB.GetManyBytes (use_dbg False)
GetManyBytes(segs, buf, ea, size) ==
    LET first == SegStart(segs, ea)
        after == SegStart(segs, ea + size)
    IN  IF first.raised # "none" THEN [raised |-> first.raised]
        ELSE IF after.raised # "none" THEN [raised |-> after.raised]
        ELSE IF first.start # after.start THEN [raised |-> "IndexError"]
        ELSE bytes_from(segs, buf, ea, ea + size, <<>>)

\* the flags words the model stores: an instruction head with the value 0x41,
\* a tail byte with the value 0x42, a data head without a value
FlagWords == {FF_CODE + FF_IVL + 65, FF_TAIL + FF_IVL + 66, FF_DATA}

\* the flags words of a database repeat a pattern of up to three words
Patterns == UNION {[1..n -> FlagWords] : n \in 1..Cardinality(FlagWords)}

\* the segment tables of the databases: ascending, disjoint, non-empty segments
Databases == {bs \in Tables : \A i \in 1..Len(bs) : bs[i].start < bs[i].end}

\* the sizes GetManyBytes is called with
Sizes == 1..(MaxSegs + 1)

InitIDB ==
    /\ \E bs \in Databases, pat \in Patterns :
        /\ segments = pcb_segment_count(bs)
        /\ buffer = [BufferOf(bs) EXCEPT
                !.words = [w \in 1..(offset_after(bs, Len(bs)) \div 4)
                                |-> pat[((w - 1) % Len(pat)) + 1]]]
    /\ id1call = [op |-> "none", ea |-> 0]
    /\ id1ret = [raised |-> "none"]
    /\ walk = [pc |-> "idle"]
    /\ ID0Idle
    /\ FileIdle
    /\ PageIdle

\* a call on the IDB and what it returned or raised; one call is made on each database
CalledIDB(call, ret) ==
    /\ id1call.op = "none"
    /\ id1call' = call
    /\ id1ret' = ret
    /\ UNCHANGED <<segments, buffer, walk>>
    /\ UNCHANGED treevars
    /\ UNCHANGED filevars
    /\ UNCHANGED pagevars

\* idb.Head(ea)
CallHead ==
    \E ea \in 0..(MaxEa + 1) :
        CalledIDB([op |-> "head", ea |-> ea], IDB_Head(segments, buffer, ea))

\* idb.NextHead(ea)
CallNextHead ==
    \E ea \in 0..(MaxEa + 1) :
        CalledIDB([op |-> "next_head", ea |-> ea], NextHead(segments, buffer, ea))

\* idb.PrevHead(ea)
CallPrevHead ==
    \E ea \in 0..(MaxEa + 1) :
        CalledIDB([op |-> "prev_head", ea |-> ea], PrevHead(segments, buffer, ea))

\* idb.GetManyBytes(ea, size)
CallGetManyBytes ==
    \E ea \in 0..(MaxEa + 1), size \in Sizes :
        CalledIDB([op |-> "get_many_bytes", ea |-> ea, size |-> size],
                  GetManyBytes(segments, buffer, ea, size))

NextIDB == CallHead \/ CallNextHead \/ CallPrevHead \/ CallGetManyBytes

SpecIDB == InitIDB /\ [][NextIDB]_vars

----------------------------------------------------------------------------
(* Head, NextHead and PrevHead step by step: a step is one turn of the    *)
(* loop of lines 968-971 / 977-980, with the GetFlags call that ends it.   *)

\* head_step, were the address left as it is
head_step_stay(ea) == ea

\* IDB.Head, line 969: `ea -= 1`
head_step(ea) == ea - 1

\* IDB.NextHead, line 978: `ea += 1`
next_head_step(ea) == ea + 1

\* `flags = self.GetFlags(ea)` in a walk (lines 967, 971, 976, 980): the loop
\* variables after it, or the exception that ends the call; part is 2 in the
\* second Head call of PrevHead and 1 otherwise
walk_GetFlags(segs, buf, op, part, ea) ==
    LET f == get_flags(segs, buf, ea)
    IN  IF f.raised # "none"
        THEN [pc |-> "raised", op |-> op, part |-> part, ea |-> ea, raised |-> f.raised]
        ELSE [pc |-> "loop", op |-> op, part |-> part, ea |-> ea, flags |-> f.flags]

\* the walk after one test of `while not self.isHead(flags)` and what follows it
walk_step(segs, buf, w) ==
    IF isHead(w.flags)
    THEN IF w.op = "prev_head" /\ w.part = 1
         THEN walk_GetFlags(segs, buf, w.op, 2, w.ea - 1)
         ELSE [pc |-> "returned", op |-> w.op, part |-> w.part, ea |-> w.ea]
    ELSE walk_GetFlags(segs, buf, w.op, w.part,
                       IF w.op = "next_head" THEN next_head_step(w.ea) ELSE head_step(w.ea))

\* the walks are run on buffers that repeat a pattern of code heads and tails
WalkPatterns ==
    UNION {[1..n -> {FF_CODE + FF_IVL + 65, FF_TAIL + FF_IVL + 66}] : n \in 1..2}

InitWalk ==
    /\ \E bs \in Databases, pat \in WalkPatterns :
        /\ segments = pcb_segment_count(bs)
        /\ buffer = [BufferOf(bs) EXCEPT
                !.words = [w \in 1..(offset_after(bs, Len(bs)) \div 4)
                                |-> pat[((w - 1) % Len(pat)) + 1]]]
    /\ id1call = [op |-> "none", ea |-> 0]
    /\ id1ret = [raised |-> "none"]
    /\ walk = [pc |-> "idle"]
    /\ ID0Idle
    /\ FileIdle
    /\ PageIdle

\* the walk goes on as w; when w ends the call, the call returns or raises
Walked(w) ==
    /\ walk' = w
    /\ id1ret' = IF w.pc = "returned" THEN [raised |-> "none", ea |-> w.ea]
                 ELSE IF w.pc = "raised" THEN [raised |-> w.raised, at |-> w.ea]
                 ELSE id1ret
    /\ UNCHANGED <<segments, buffer, treevars, filevars, pagevars>>

\* idb.Head(ea), idb.NextHead(ea) or idb.PrevHead(ea) is called: up to the first test
BeginWalk ==
    /\ walk.pc = "idle"
    /\ \E op \in {"head", "next_head", "prev_head"}, ea \in 0..(MaxEa + 1) :
        /\ id1call' = [op |-> op, ea |-> ea]
        /\ Walked(walk_GetFlags(segments, buffer, op, 1, IF op = "next_head" THEN ea + 1 ELSE ea))

\* one turn of the loop
StepWalk ==
    /\ walk.pc = "loop"
    /\ Walked(walk_step(segments, buffer, walk))
    /\ UNCHANGED id1call

NextWalk == BeginWalk \/ StepWalk

\* a call that has begun goes on: nothing suspends it
SpecWalk == InitWalk /\ [][NextWalk]_vars /\ WF_vars(StepWalk)

----------------------------------------------------------------------------
(* The .idb container: FileHeader, Section, IDB.pcb_header, IDB.validate. *)
(* A file is held as its header fields and, for each non-zero offset, the  *)
(* section found there: is_compressed, length and the body, which is held  *)
(* as the signature it begins with.  An exception is its type and message. *)

Exc(type, msg) == [type |-> type, msg |-> msg]
NoExc == Exc("none", "")

\* python's None, and an object that is not None
None == [none |-> TRUE]
Some(fields) == [none |-> FALSE, fields |-> fields]

\* FileHeader.validate, line 73: the value sig2 is compared with, in hexadecimal
SIG2 == "AABBCCDD"

\* SECTIONS, lines 859-866
SECTIONS ==
    << [name |-> "id0", cls |-> "ID0"], [name |-> "id1", cls |-> "ID1"],
       [name |-> "nam", cls |-> "NAM"], [name |-> "seg", cls |-> "None"],
       [name |-> "til", cls |-> "TIL"], [name |-> "id2", cls |-> "None"] >>

\* the signature the validate method of a section class compares with
\* (ID0 line 636, ID1 line 772, NAM line 817, TIL line 843)
signature_of(cls) ==
    CASE cls = "ID0" -> "B-tree v2"
      [] cls = "ID1" -> "VA*"
      [] cls = "NAM" -> "VA*"
      [] cls = "TIL" -> "IDATIL"
      [] OTHER -> "raw"

\* FileHeader.vsParse: pcb_version runs when the version field has been read,
\* before the offsets after it are read
FileHeader_vsParse(f) ==
    IF f.version # 6
    THEN [raised |-> Exc("NotImplementedError", "unsupported version")]
    ELSE [raised |-> NoExc,
          header |-> [signature |-> f.signature, sig2 |-> f.sig2,
                      version |-> f.version, offsets |-> f.offsets]]

\* FileHeader.validate
FileHeader_validate(h) ==
    IF h.signature # "IDA1" THEN Exc("ValueError", "bad signature")
    ELSE IF h.sig2 # SIG2 THEN Exc("ValueError", "bad sig2")
    ELSE IF h.version # 6 THEN Exc("ValueError", "unsupported version")
    ELSE NoExc

\* Section.vsParse with Section.pcb_header: the contents are the first
\* header.length bytes of the body
Section_vsParse(sec) ==
    IF sec.is_compressed # 0
    THEN [raised |-> Exc("NotImplementedError", "compressed section")]
    ELSE [raised |-> NoExc,
          section |-> [is_compressed |-> sec.is_compressed, length |-> sec.length,
                       contents |-> IF sec.length = 0 THEN "" ELSE sec.body]]

\* Section.validate
Section_validate(section) ==
    IF section.length = 0 THEN Exc("ValueError", "zero size") ELSE NoExc

\* sectiondef.cls(buf=contents).vsParse(contents), lines 919-920: ID0, ID1 and
\* NAM read integers, which struct cannot unpack from empty contents; TIL
\* reads only the bytes of its signature
cls_vsParse(cls, contents) ==
    IF contents = "" /\ cls # "TIL"
    THEN [raised |-> Exc("struct.error", "unpack_from requires a longer buffer")]
    ELSE [raised |-> NoExc, struct |-> Some([cls |-> cls, signature |-> contents])]

\* ID0.validate, ID1.validate, NAM.validate, TIL.validate, on a decoded
\* section whose fields after the signature hold the expected values
cls_validate(s) ==
    IF s.signature # signature_of(s.cls) THEN Exc("ValueError", "bad signature") ELSE NoExc

\* the IDB object when its constructor returns, lines 869-893
IDB_init ==
    [header |-> None, sections |-> <<>>,
     id0 |-> None, id1 |-> None, nam |-> None, til |-> None]

RECURSIVE read_sections(_, _, _)
\* IDB.pcb_header, lines 897-905: the first loop, at the i-th offset
read_sections(f, db, i) ==
    IF i > Len(db.header.fields.offsets) THEN [raised |-> NoExc, idb |-> db]
    ELSE IF db.header.fields.offsets[i] = 0
    THEN read_sections(f, [db EXCEPT !.sections = Append(@, None)], i + 1)
    ELSE LET s == Section_vsParse(f.at[db.header.fields.offsets[i]])
         IN  IF s.raised # NoExc THEN [raised |-> s.raised, idb |-> db]
             ELSE read_sections(f, [db EXCEPT !.sections = Append(@, Some(s.section))], i + 1)

RECURSIVE decode_sections(_, _)
\* IDB.pcb_header, lines 907-927: the second loop, at SECTIONS[i] (1-based)
decode_sections(db, i) ==
    IF i > Len(SECTIONS) THEN [raised |-> NoExc, idb |-> db]
    ELSE IF i - 1 > Len(db.sections) THEN decode_sections(db, i + 1)
    ELSE IF db.sections[i].none THEN decode_sections(db, i + 1)
    ELSE IF SECTIONS[i].cls = "None" THEN decode_sections(db, i + 1)
    ELSE LET s == cls_vsParse(SECTIONS[i].cls, db.sections[i].fields.contents)
         IN  IF s.raised # NoExc THEN [raised |-> s.raised, idb |-> db]
             ELSE decode_sections([db EXCEPT ![SECTIONS[i].name] = s.struct], i + 1)

\* IDB.pcb_header
IDB_pcb_header(f, db) ==
    LET r == read_sections(f, db, 1)
    IN  IF r.raised # NoExc THEN r ELSE decode_sections(r.idb, 1)

\* IDB(buf).vsParse(buf): the header field is parsed, then pcb_header runs
IDB_vsParse(f) ==
    LET h == FileHeader_vsParse(f)
    IN  IF h.raised # NoExc THEN [raised |-> h.raised, idb |-> IDB_init]
        ELSE IDB_pcb_header(f, [IDB_init EXCEPT !.header = Some(h.header)])

\* self.<name>.validate() in IDB.validate: None has no validate method
member_validate(s) ==
    IF s.none THEN Exc("AttributeError", "'NoneType' object has no attribute 'validate'")
    ELSE cls_validate(s.fields)

\* IDB.validate
IDB_validate(db) ==
    IF FileHeader_validate(db.header.fields) # NoExc THEN FileHeader_validate(db.header.fields)
    ELSE IF member_validate(db.id0) # NoExc THEN member_validate(db.id0)
    ELSE IF member_validate(db.id1) # NoExc THEN member_validate(db.id1)
    ELSE IF member_validate(db.nam) # NoExc THEN member_validate(db.nam)
    ELSE member_validate(db.til)

\* the sections a file holds for SECTIONS[i]: well formed, with a body that
\* does not begin with the signature, with length 0, compressed
SectionsFor(i) ==
    LET sig == signature_of(SECTIONS[i].cls)
    IN  {[is_compressed |-> 0, length |-> 1, body |-> sig],
         [is_compressed |-> 0, length |-> 1, body |-> "raw"],
         [is_compressed |-> 0, length |-> 0, body |-> sig],
         [is_compressed |-> 1, length |-> 1, body |-> sig]}

\* what a file holds for SECTIONS[i]: nothing (offset 0) or one of SectionsFor(i)
Options(i) == {None} \cup {Some(sec) : sec \in SectionsFor(i)}

\* the file with the given header fields and sections: the i-th section, when
\* present, is at offset i
FileOf(signature, sig2, version, secs) ==
    [signature |-> signature, sig2 |-> sig2, version |-> version,
     offsets |-> [i \in 1..Len(secs) |-> IF secs[i].none THEN 0 ELSE i],
     at |-> [o \in {i \in 1..Len(secs) : ~secs[i].none} |-> secs[o].fields]]

InitFile ==
    /\ \E signature \in {"IDA1", "XDA1"}, sig2 \in {SIG2, "00000000"}, version \in {6, 7} :
        \E s1 \in Options(1), s2 \in Options(2), s3 \in Options(3),
           s4 \in Options(4), s5 \in Options(5), s6 \in Options(6) :
            file = FileOf(signature, sig2, version, <<s1, s2, s3, s4, s5, s6>>)
    /\ idb = IDB_init
    /\ fcall = "none"
    /\ fraised = NoExc
    /\ ID0Idle
    /\ ID1Idle
    /\ PageIdle

\* db = IDB(buf); db.vsParse(buf)
Parse ==
    /\ fcall = "none"
    /\ fcall' = "parse"
    /\ idb' = IDB_vsParse(file).idb
    /\ fraised' = IDB_vsParse(file).raised
    /\ UNCHANGED <<file, treevars, id1vars, pagevars>>

\* db.validate(), on a db that was parsed
Validate ==
    /\ fcall = "parse"
    /\ fraised = NoExc
    /\ fcall' = "validate"
    /\ fraised' = IDB_validate(idb)
    /\ UNCHANGED <<file, idb, treevars, id1vars, pagevars>>

NextFile == Parse \/ Validate

SpecFile == InitFile /\ [][NextFile]_vars

----------------------------------------------------------------------------
(* The operand-type predicates of the IDB on a flags word. *)

\* FLAGS, lines 1330, 1348, 1372, 1375, 1393, 1417
MS_0TYPE == 15728640
FF_0OFF == 5242880
FF_0CUST == 13631488
MS_1TYPE == 251658240
FF_1OFF == 83886080
FF_1CUST == 218103808

\* IDB.isOff0, IDB.isOff1
isOff0(flags) == And(flags, MS_0TYPE) = FF_0CUST
isOff1(flags) == And(flags, MS_1TYPE) = FF_1CUST

\* IDB.isCustFmt0, IDB.isCustFmt1
isCustFmt0(flags) == And(flags, MS_0TYPE) = FF_0CUST
isCustFmt1(flags) == And(flags, MS_1TYPE) = FF_1CUST

\* the flags words the predicates are applied to: every type of the first
\* operand (bits 20-23) with every type of the second (bits 24-27), over each
\* of FlagWords
OperandFlags ==
    {t0 * 1048576 + t1 * 16777216 + w : t0 \in 0..15, t1 \in 0..15, w \in FlagWords}

InitFlags ==
    /\ ID1Idle
    /\ ID0Idle
    /\ FileIdle
    /\ PageIdle

\* a predicate of the IDB applied to a flags word; one call is made in each run
Tested(op, flags, value) ==
    /\ id1call.op = "none"
    /\ id1call' = [op |-> op, flags |-> flags]
    /\ id1ret' = [raised |-> "none", value |-> value]
    /\ UNCHANGED <<segments, buffer, walk>>
    /\ UNCHANGED treevars
    /\ UNCHANGED filevars
    /\ UNCHANGED pagevars

\* idb.isOff0(flags)
IsOff0 == \E flags \in OperandFlags : Tested("isOff0", flags, isOff0(flags))

\* idb.isOff1(flags)
IsOff1 == \E flags \in OperandFlags : Tested("isOff1", flags, isOff1(flags))

\* idb.isCustFmt0(flags)
IsCustFmt0 == \E flags \in OperandFlags : Tested("isCustFmt0", flags, isCustFmt0(flags))

\* idb.isCustFmt1(flags)
IsCustFmt1 == \E flags \in OperandFlags : Tested("isCustFmt1", flags, isCustFmt1(flags))

NextFlags == IsOff0 \/ IsOff1 \/ IsCustFmt0 \/ IsCustFmt1

SpecFlags == InitFlags /\ [][NextFlags]_vars

----------------------------------------------------------------------------
(* One Page instance with its entry cache.  A raw entry whose pointer      *)
(* holds an offset outside the contents is marked corrupt: it cannot be    *)
(* unpacked.                                                               *)

MaxEntries == 3

\* entry.vsParse(self.contents, offset=ptr.offset - SIZEOF_ENTRY), lines 226 and 232
entry_vsParse(pg, raw, key) ==
    IF raw.corrupt
    THEN [raised |-> "struct.error"]
    ELSE [raised |-> "none", entry |-> parse_entry(pg, raw, key)]

RECURSIVE load_into(_, _, _, _)
\* Page._load_entries, lines 220-234: the loop at i, self._entries being acc;
\* an exception leaves the loop with the entries appended so far
load_into(pg, i, key, acc) ==
    IF i >= pg.entry_count
    THEN [raised |-> "none", entries |-> acc]
    ELSE LET e == entry_vsParse(pg, pg.contents[i + 1], key)
         IN  IF e.raised # "none"
             THEN [raised |-> e.raised, entries |-> acc]
             ELSE load_into(pg, i + 1, e.entry.key, Append(acc, e.entry))

\* Page._load_entries on a Page whose _entries is cache
Page_load_entries(pg, cache) ==
    IF cache = <<>>
    THEN load_into(pg, 0, <<>>, <<>>)
    ELSE [raised |-> "none", entries |-> cache]

\* list(Page.get_entries()): `entries` is self._entries afterwards, `result` the entries yielded
Page_get_entries(pg, cache) ==
    LET r == Page_load_entries(pg, cache)
    IN  IF r.raised # "none" THEN r ELSE [r EXCEPT !.raised = "none"] @@ [result |-> r.entries]

\* Page.get_entry(entry_number)
Page_get_entry(pg, cache, n) ==
    LET r == Page_load_entries(pg, cache)
        es == r.entries
    IN  IF r.raised # "none" THEN r
        ELSE IF n >= Len(es) THEN [raised |-> "KeyError", entries |-> es]
        ELSE IF n >= 0 THEN [raised |-> "none", entries |-> es, result |-> es[n + 1]]
        ELSE IF Len(es) + n >= 0
        THEN [raised |-> "none", entries |-> es, result |-> es[Len(es) + n + 1]]
        ELSE [raised |-> "IndexError", entries |-> es]

RECURSIVE validate_from(_, _, _)
\* Page.validate, lines 270-277: the loop at the i-th entry (1-based) with `last` = prev
validate_from(es, i, prev) ==
    IF i > Len(es) THEN "none"
    ELSE IF prev = NoneEntry THEN validate_from(es, i + 1, prev)
    ELSE IF ~KeyLess(prev.key, es[i].key) THEN "ValueError"
    ELSE validate_from(es, i + 1, es[i])

\* Page.validate
Page_validate(pg, cache) ==
    LET r == Page_load_entries(pg, cache)
    IN  IF r.raised # "none" THEN r
        ELSE [raised |-> validate_from(r.entries, 1, NoneEntry), entries |-> r.entries]

\* the keys the pages of the model hold
PageKeys == {<<>>, <<1>>, <<1, 1>>, <<1, 2>>, <<2>>}

\* the buffer of a page that holds the keys ks in this order, a leaf with
\* front compression when ppointer is 0; entry number bad - 1 is corrupt
RawPage(ppointer, ks, bad) ==
    [ppointer |-> ppointer,
     entry_count |-> Len(ks),
     contents |->
        [i \in 1..Len(ks) |->
            LET cp == IF ppointer = 0 /\ i > 1 THEN CommonPrefix(ks[i - 1], ks[i]) ELSE 0
            IN  [page |-> IF ppointer = 0 THEN 0 ELSE ppointer + i,
                 common_prefix |-> cp,
                 key_bytes |-> SubSeq(ks[i], cp + 1, Len(ks[i])),
                 value |-> ValueOf(i),
                 corrupt |-> (i = bad)]]]

InitPage ==
    /\ \E ppointer \in {0, 1}, ks \in UNION {[1..n -> PageKeys] : n \in 0..MaxEntries} :
        \E bad \in 0..Len(ks) :
            page_buf = RawPage(ppointer, ks, bad)
    /\ page_entries = <<>>
    /\ pcall = [op |-> "none"]
    /\ pret = [raised |-> "none"]
    /\ readers = <<>>
    /\ ID0Idle
    /\ ID1Idle
    /\ FileIdle

\* a call on the Page; `before` is self._entries when the call was made
CalledPage(call, ret) ==
    /\ pcall' = call @@ [before |-> page_entries]
    /\ page_entries' = ret.entries
    /\ pret' = ret
    /\ UNCHANGED <<page_buf, readers, treevars, id1vars, filevars>>

\* list(page.get_entries())
GetEntries == CalledPage([op |-> "get_entries"], Page_get_entries(page_buf, page_entries))

\* page.get_entry(n)
GetEntry ==
    \E n \in (-1)..MaxEntries :
        CalledPage([op |-> "get_entry", n |-> n], Page_get_entry(page_buf, page_entries, n))

\* page.validate()
ValidatePage == CalledPage([op |-> "validate"], Page_validate(page_buf, page_entries))

NextPage == GetEntries \/ GetEntry \/ ValidatePage

SpecPage == InitPage /\ [][NextPage]_vars

----------------------------------------------------------------------------
(* Two threads that read one Page instance.  A step of a thread is one    *)
(* access to self._entries: the test of line 218, an append (line 233,    *)
(* with the parsing of the entry, which touches only the thread's locals), *)
(* the indexing of get_entry, one step of the iteration of get_entries.    *)

Readers == {1, 2}

\* the pages the threads read: intact pages whose keys ascend
SortedPages ==
    {RawPage(ppointer, ks, 0) :
        ppointer \in {0, 1},
        ks \in {s \in UNION {[1..n -> PageKeys] : n \in 0..MaxEntries} :
                    \A i \in 1..(Len(s) - 1) : KeyLess(s[i], s[i + 1])}}

\* a thread that has not made its call
Idle == [pc |-> "idle"]

InitReaders ==
    /\ page_buf \in SortedPages
    /\ page_entries = <<>>
    /\ readers = [r \in Readers |-> Idle]
    /\ pcall = [op |-> "none"]
    /\ pret = [raised |-> "none"]
    /\ ID0Idle
    /\ ID1Idle
    /\ FileIdle

\* thread r moves on and, maybe, appends to self._entries
Moved(r, state, entries) ==
    /\ readers' = [readers EXCEPT ![r] = state]
    /\ page_entries' = entries
    /\ UNCHANGED <<page_buf, pcall, pret, treevars, id1vars, filevars>>

\* thread r calls page.get_entry(n) or iterates page.get_entries()
Enter(r) ==
    /\ readers[r].pc = "idle"
    /\ \/ \E n \in 0..(page_buf.entry_count - 1) :
            Moved(r, [pc |-> "test", op |-> "get_entry", n |-> n], page_entries)
       \/ Moved(r, [pc |-> "test", op |-> "get_entries", n |-> 0], page_entries)

\* Page._load_entries, line 218: `if not self._entries`
TestEmpty(r) ==
    /\ readers[r].pc = "test"
    /\ IF page_entries = <<>>
       THEN Moved(r, [pc |-> "load", op |-> readers[r].op, n |-> readers[r].n,
                      i |-> 0, key |-> <<>>], page_entries)
       ELSE Moved(r, [readers[r] EXCEPT !.pc = "loaded"], page_entries)

\* Page._load_entries, lines 220-234: one turn of the loop, or its end
LoadEntry(r) ==
    /\ readers[r].pc = "load"
    /\ IF readers[r].i >= page_buf.entry_count
       THEN Moved(r, [pc |-> "loaded", op |-> readers[r].op, n |-> readers[r].n], page_entries)
       ELSE LET e == parse_entry(page_buf, page_buf.contents[readers[r].i + 1], readers[r].key)
            IN  Moved(r, [readers[r] EXCEPT !.i = @ + 1, !.key = e.key],
                      Append(page_entries, e))

\* Page.get_entry, lines 263-266: the entry read from self._entries
ReadEntry(r) ==
    /\ readers[r].pc = "loaded"
    /\ readers[r].op = "get_entry"
    /\ IF readers[r].n >= Len(page_entries)
       THEN Moved(r, [pc |-> "done", op |-> "get_entry", n |-> readers[r].n,
                      raised |-> "KeyError"], page_entries)
       ELSE Moved(r, [pc |-> "done", op |-> "get_entry", n |-> readers[r].n,
                      raised |-> "none", result |-> page_entries[readers[r].n + 1]],
                  page_entries)

\* Page.get_entries, lines 247-248: the list iterator yields the entry at its
\* index, or ends when the index has reached the length of the list
YieldEntry(r) ==
    /\ readers[r].pc \in {"loaded", "iter"}
    /\ readers[r].op = "get_entries"
    /\ \/ /\ readers[r].pc = "loaded"
          /\ Moved(r, [pc |-> "iter", op |-> "get_entries", n |-> 0, result |-> <<>>],
                   page_entries)
       \/ /\ readers[r].pc = "iter"
          /\ IF readers[r].n < Len(page_entries)
             THEN Moved(r, [readers[r] EXCEPT !.n = @ + 1,
                                              !.result = Append(@, page_entries[readers[r].n + 1])],
                        page_entries)
             ELSE Moved(r, [pc |-> "done", op |-> "get_entries", n |-> readers[r].n,
                            raised |-> "none", result |-> readers[r].result],
                        page_entries)

NextReaders ==
    \E r \in Readers : Enter(r) \/ TestEmpty(r) \/ LoadEntry(r) \/ ReadEntry(r) \/ YieldEntry(r)

SpecReaders == InitReaders /\ [][NextReaders]_vars

----------------------------------------------------------------------------
(* What the index holds, read off the pages without the search code. *)

Range(f) == {f[i] : i \in DOMAIN f}

RECURSIVE InOrder(_), InOrderFrom(_, _)
\* the keys of the sub-tree under a page, read as the Page docstring orders
\* them: the keys under ppointer, then each entry followed by the keys under
\* its page
InOrder(n) ==
    IF is_leaf(pages[n])
    THEN [i \in 1..pages[n].entry_count |-> load_entries(pages[n])[i].key]
    ELSE InOrder(pages[n].ppointer) \o InOrderFrom(n, 1)
InOrderFrom(n, i) ==
    IF i > pages[n].entry_count
    THEN <<>>
    ELSE LET e == load_entries(pages[n])[i]
         IN  <<e.key>> \o InOrder(e.page) \o InOrderFrom(n, i + 1)

\* the keys of the tree in order
InOrderKeys == InOrder(root_page)

\* the keys stored in the tree, in leaf and branch entries alike
KeySet == Range(InOrderKeys)

\* the position of a stored key in InOrderKeys
PosOf(key) == CHOOSE i \in 1..Len(InOrderKeys) : InOrderKeys[i] = key

\* the page numbers of the branch pages that hold the key, with the entry number
BranchHolders(key) ==
    {h \in UNION {{[page |-> n, index |-> i] : i \in 0..(pages[n].entry_count - 1)} :
                     n \in DOMAIN pages} :
        /\ ~is_leaf(pages[h.page])
        /\ load_entries(pages[h.page])[h.index + 1].key = key}

Reverse(s) == [i \in 1..Len(s) |-> s[Len(s) + 1 - i]]

LogKeys == [i \in 1..Len(log) |-> log[i].key]

\* the cursor came from find and every later call was op
WalkBy(op) ==
    /\ Len(log) >= 1
    /\ log[1].op = "find"
    /\ \A i \in 2..Len(log) : log[i].op = op
    /\ last.op \in {"find", op}

Ascending(ks) == \A i \in 1..(Len(ks) - 1) : KeyLess(ks[i], ks[i + 1])

----------------------------------------------------------------------------
(* The claims. *)

\* C1: for every key K stored in a well-formed tree (in a leaf or in a branch
\* entry, branch pages with a single entry included), find(K, EXACT_MATCH)
\* returns a cursor whose key is K.
C1_FindReturnsEveryStoredKey ==
    (last.op = "find" /\ last.key \in KeySet)
        => (raised = "none" /\ entry.key = last.key)

\* C2: for every prefix K of a stored key, find_prefix(K) returns a cursor
\* whose key starts with K and is the smallest stored key that starts with K.
C2_FindPrefixReturnsLeastMatch ==
    (last.op = "find_prefix" /\ \E k \in KeySet : StartsWith(k, last.key))
        => /\ raised = "none"
           /\ StartsWith(entry.key, last.key)
           /\ \A k \in KeySet : StartsWith(k, last.key) => (k = entry.key \/ KeyLess(entry.key, k))

\* C3: from the cursor find(min_key) returns, next() succeeds record_count - 1
\* times, the keys read being all the keys of the tree, each once, in strictly
\* ascending byte order, and the next() after those fails with IndexError.
C3_NextVisitsAllAscending ==
    (WalkBy("next") /\ log[1].key = InOrderKeys[1])
        => /\ Len(log) <= record_count
           /\ LogKeys = SubSeq(InOrderKeys, 1, Len(log))
           /\ Ascending(LogKeys)
           /\ (raised # "none" =>
                 (raised = "IndexError" /\ Len(log) = record_count /\ Range(LogKeys) = KeySet))

C3_Witness ==
    /\ WalkBy("next")
    /\ log[1].key = InOrderKeys[1]
    /\ record_count > 3
    /\ last.op = "next"
    /\ raised = "IndexError"
    /\ Len(log) = record_count

\* C4: from the cursor find(K) returns, each prev() that succeeds reads the
\* key just before the one read last, the keys strictly descending, and prev()
\* fails, with IndexError, at the smallest key of the tree and nowhere else.
C4_PrevDescendsToMin ==
    WalkBy("prev")
        => LET pos == PosOf(log[1].key)
           IN  /\ Len(log) <= pos
               /\ \A i \in 1..Len(log) : log[i].key = InOrderKeys[pos + 1 - i]
               /\ Ascending(Reverse(LogKeys))
               /\ (raised # "none" => (raised = "IndexError" /\ Len(log) = pos))

C4_Witness ==
    /\ WalkBy("prev")
    /\ Len(log) > 3
    /\ last.op = "prev"
    /\ raised = "IndexError"
    /\ Len(path) = 1
    /\ ~is_leaf(pages[root_page])

\* the calls of the log up to the last next, and from there on
Forward == SubSeq(LogKeys, 1, Least({i \in 1..Len(log) : \A j \in (i + 1)..Len(log) : log[j].op = "prev"}))
Backward == SubSeq(LogKeys, Len(Forward), Len(log))

\* the walk went by next() from the smallest key to the greatest and from
\* there by prev() until prev() failed
RoundTrip ==
    /\ last.op = "prev"
    /\ raised # "none"
    /\ Len(log) >= 1
    /\ log[1].op = "find"
    /\ \A i \in 2..Len(Forward) : log[i].op = "next"
    /\ log[1].key = InOrderKeys[1]
    /\ Forward[Len(Forward)] = InOrderKeys[Len(InOrderKeys)]

\* C5: the keys read by next() from the smallest key to the greatest are the
\* reverse of the keys read by prev() from the greatest key until it fails.
C5_NextIsReverseOfPrev ==
    RoundTrip => (raised = "IndexError" /\ Forward = Reverse(Backward))

C5_Witness == RoundTrip /\ Len(Backward) > 3 /\ Forward = Reverse(Backward)

\* C6: for every key K not stored in the tree, find(K, EXACT_MATCH) raises
\* KeyError and nothing else, on a root leaf page without entries too.
C6_FindMissingRaisesKeyError ==
    (last.op = "find" /\ last.key \notin KeySet) => raised = "KeyError"

\* C7: for every K that is a prefix of no stored key, find_prefix(K) raises
\* KeyError.
C7_FindPrefixMissingRaisesKeyError ==
    (last.op = "find_prefix" /\ \A k \in KeySet : ~StartsWith(k, last.key))
        => raised = "KeyError"

C7_Witness ==
    /\ last.op = "find_prefix"
    /\ Len(path) = 3
    /\ \A k \in KeySet : ~StartsWith(k, last.key)
    /\ \E k \in KeySet : KeyLess(last.key, k)
    /\ raised = "KeyError"

\* C8: when the key searched equals the key of an entry of a branch page the
\* descent of find comes to, find returns the cursor on that entry: the last
\* page of its path is that branch page, its value the value of that entry.
C8_FindStopsOnBranchEntry ==
    last.op = "find" =>
        \A h \in BranchHolders(last.key) :
            (\E i \in 1..Len(path) : path[i] = h.page)
            => /\ raised = "none"
               /\ Top(path) = h.page
               /\ entry_number = h.index
               /\ entry.key = last.key
               /\ entry.value = pages[h.page].contents[h.index + 1].value

C8_Witness ==
    /\ last.op = "find"
    /\ raised = "none"
    /\ Len(path) = 2
    /\ ~is_leaf(pages[Top(path)])
    /\ [page |-> Top(path), index |-> entry_number] \in BranchHolders(last.key)

RECURSIVE WordsBefore(_)
\* the number of bytes of the address space in the segments before the k-th (0-based)
WordsBefore(k) ==
    IF k = 0 THEN 0
    ELSE WordsBefore(k - 1) + (segments[k].bounds.end - segments[k].bounds.start)

C10_NextSegment ==
    id1call.op = "get_next_segment"
        => /\ containing(segments, id1call.ea) = {} => id1ret.raised = "KeyError"
           /\ \A i \in containing(segments, id1call.ea) :
                IF i = Len(segments) - 1
                THEN id1ret.raised = "IndexError"
                ELSE id1ret = [raised |-> "none", segment |-> segments[i + 2]]

C10_Witness ==
    /\ id1call.op = "get_next_segment"
    /\ Len(segments) = 2
    /\ containing(segments, id1call.ea) = {1}
    /\ id1ret.raised = "IndexError"

\* C11: get_many_bytes(ea, size), size >= 1, raises IndexError exactly when
\* ea and ea + size - 1 lie in different segments; when both lie in the same
\* segment and every byte of the range has FF_IVL (a range that ends on the
\* last byte of the segment included), it returns flags & MS_VAL of the
\* addresses ea .. ea + size - 1, in order.  The flags of an address are what
\* GetFlags returns for it.
C11_GetManyBytes ==
    id1call.op = "get_many_bytes" =>
        LET first == containing(segments, id1call.ea)
            final == containing(segments, id1call.ea + id1call.size - 1)
            flags_at(i) == get_flags(segments, buffer, id1call.ea + i - 1)
        IN  /\ id1ret.raised = "IndexError"
                <=> (first # {} /\ final # {} /\ first # final)
            /\ (/\ first # {}
                /\ first = final
                /\ \A i \in 1..id1call.size :
                    /\ flags_at(i).raised = "none"
                    /\ And(flags_at(i).flags, FF_IVL) = FF_IVL)
                => id1ret = [raised |-> "none",
                             bytes |-> [i \in 1..id1call.size |-> And(flags_at(i).flags, MS_VAL)]]

\* C12: whenever next_head(ea) returns an address h, h is greater than ea, the
\* class of the flags of h is Code or Data, and head(h) returns h.
C12_NextHeadIsHead ==
    (id1call.op = "next_head" /\ id1ret.raised = "none") =>
        /\ id1ret.ea > id1call.ea
        /\ And(get_flags(segments, buffer, id1ret.ea).flags, MS_CLS) \in {FF_CODE, FF_DATA}
        /\ IDB_Head(segments, buffer, id1ret.ea) = [raised |-> "none", ea |-> id1ret.ea]

\* next_head has stepped over a byte that is no head and returned a data head
C12_Witness ==
    /\ id1call.op = "next_head"
    /\ id1ret.raised = "none"
    /\ id1ret.ea > id1call.ea + 1
    /\ isData(get_flags(segments, buffer, id1ret.ea).flags)

\* C13: a head, next_head or prev_head call that starts in a segment and walks
\* past the bounds of the segment to an address that lies in no segment fails
\* with IndexError, not with KeyError.
C13_WalkOverrunRaisesIndexError ==
    (/\ id1call.op \in {"head", "next_head", "prev_head"}
     /\ containing(segments, id1call.ea) # {}
     /\ id1ret.raised # "none"
     /\ id1ret.at # id1call.ea
     /\ containing(segments, id1ret.at) = {})
        => id1ret.raised = "IndexError"

\* the file's header passes FileHeader.validate
HeaderValid == file.signature = "IDA1" /\ file.sig2 = SIG2 /\ file.version = 6

\* the numbers (1-based, in SECTIONS order) of the sections present in the file
Present == {i \in 1..Len(SECTIONS) : file.offsets[i] # 0}

\* the numbers of id0, id1, nam and til
Typed == {i \in 1..Len(SECTIONS) : SECTIONS[i].cls # "None"}

\* the section has contents and they begin with the signature of its class
SectionPasses(i) ==
    file.at[i].length # 0 /\ file.at[i].body = signature_of(SECTIONS[i].cls)

\* nothing of the file's sections is held by the IDB object
NothingDecoded ==
    /\ idb.sections = <<>>
    /\ idb.id0.none /\ idb.id1.none /\ idb.nam.none /\ idb.til.none

\* C14: validate() on a parsed container succeeds if and only if the header
\* is valid and every one of id0, id1, nam, til that is present passes its own
\* validation; a container with one of the four absent (offset 0) and the
\* others valid validates.
C14_ValidateIffPresentSectionsValid ==
    fcall = "validate" =>
        (fraised = NoExc
            <=> (HeaderValid /\ \A i \in Typed \cap Present : SectionPasses(i)))

\* C15: parsing a file whose header is valid (and whose sections are well
\* formed) succeeds; parsing a file whose first magic byte is not 'I' fails
\* with ValueError('bad signature'); parsing a file whose version is 7 fails
\* with an exception of another type; in both failing cases no section is
\* decoded.
C15_ParseChecksHeader ==
    fcall = "parse" =>
        /\ (/\ HeaderValid
            /\ \A i \in Present : file.at[i].is_compressed = 0 /\ file.at[i].length # 0)
                => fraised = NoExc
        /\ (file.signature # "IDA1" /\ file.sig2 = SIG2 /\ file.version = 6)
                => fraised = Exc("ValueError", "bad signature") /\ NothingDecoded
        /\ (file.signature = "IDA1" /\ file.sig2 = SIG2 /\ file.version = 7)
                => /\ fraised.type \notin {"none", "ValueError"}
                   /\ NothingDecoded

\* C16: parsing a container whose header parses fails when a present section
\* declares length 0, fails with NotImplementedError when a present section is
\* compressed, and records a section whose offset is 0 as absent (None)
\* without an error of its own.
C16_ParseChecksSections ==
    (fcall = "parse" /\ file.version = 6) =>
        /\ (\E i \in Present : file.at[i].length = 0) => fraised # NoExc
        /\ (\E i \in Present : file.at[i].is_compressed # 0)
                => fraised.type = "NotImplementedError"
        /\ (\A i \in Present : file.at[i].is_compressed = 0 /\ file.at[i].length # 0)
                => /\ fraised = NoExc
                   /\ \A i \in 1..Len(SECTIONS) :
                        i \notin Present => idb.sections[i] = None

\* C17: isOff0(flags) is true exactly when flags & MS_0TYPE == FF_0OFF,
\* isOff1(flags) exactly when flags & MS_1TYPE == FF_1OFF, and isOff0 and
\* isCustFmt0 are never both true of the same flags.
C17_OffsetOperandPredicates ==
    /\ id1call.op = "isOff0"
        => /\ id1ret.value <=> (And(id1call.flags, MS_0TYPE) = FF_0OFF)
           /\ ~(id1ret.value /\ isCustFmt0(id1call.flags))
    /\ id1call.op = "isOff1"
        => (id1ret.value <=> (And(id1call.flags, MS_1TYPE) = FF_1OFF))
    /\ id1call.op = "isCustFmt0"
        => ~(id1ret.value /\ isOff0(id1call.flags))

\* the pages a branch page points at: its ppointer and the page of each entry
Children(n) ==
    IF is_leaf(pages[n]) THEN {}
    ELSE {pages[n].ppointer} \cup {e.page : e \in Range(get_entries(pages[n]))}

\* C18: after a find that succeeded and after every next() and prev() that
\* succeeded, the cursor's path is a chain of pages that starts at the root
\* page, each page a child (the ppointer or the page of an entry) of the one
\* before it; entry_number is an entry number of the last page of the path
\* (0 <= entry_number < entry_count) and entry is that entry of that page.
C18_CursorPathIsChainToEntry ==
    (last # NoCall /\ raised = "none") =>
        /\ Len(path) >= 1
        /\ path[1] = root_page
        /\ \A i \in 1..(Len(path) - 1) : path[i + 1] \in Children(path[i])
        /\ 0 <= entry_number
        /\ entry_number < pages[Top(path)].entry_count
        /\ get_entry(pages[Top(path)], entry_number) = [raised |-> "none", entry |-> entry]

\* next() has gone from an entry of the root page down two levels to a leaf
C18_Witness ==
    /\ last.op = "next"
    /\ raised = "none"
    /\ Len(log) >= 2
    /\ \E h \in BranchHolders(log[Len(log) - 1].key) : h.page = root_page
    /\ Len(path) = 3
    /\ entry_number = 0

\* the entries of the page in page order, decoded without the cache
PageEntries == load_entries(page_buf)

\* every raw entry of the page can be unpacked
Intact == \A i \in 1..page_buf.entry_count : ~page_buf.contents[i].corrupt

\* C19: Page.validate raises ValueError for every page that holds two
\* consecutive entries whose keys are not strictly ascending, and returns
\* for the pages whose keys are strictly ascending.
C19_ValidateRejectsUnsortedPage ==
    (pcall.op = "validate" /\ Intact) =>
        (pret.raised = "ValueError"
            <=> \E i \in 1..(Len(PageEntries) - 1) :
                    ~KeyLess(PageEntries[i].key, PageEntries[i + 1].key))

\* C20: after a get_entry or get_entries call the cached list holds the
\* entry_count entries of the page in page order; a call made when the cache
\* is filled does not change it; and no get_entries call, a call after a load
\* that failed part-way on a corrupt entry included, returns a list whose
\* length differs from entry_count without raising.
C20_EntryCacheIsWriteOnce ==
    pcall.op \in {"get_entry", "get_entries"} =>
        /\ Intact => page_entries = PageEntries
        /\ pcall.before # <<>> => page_entries = pcall.before
        /\ (pcall.op = "get_entries" /\ pret.raised = "none")
                => Len(pret.result) = page_buf.entry_count

\* C21: when two readers call get_entry / get_entries on the same Page
\* instance, their _load_entries interleaved in any order, the cache ends
\* with exactly entry_count entries, each entry once and in key order, and
\* every reader observes at index i the entry with the i-th key of the page.
C21_ConcurrentReadersSeeThePage ==
    /\ (\A r \in Readers : readers[r].pc = "done") => page_entries = PageEntries
    /\ \A r \in Readers :
        readers[r].pc = "done" =>
            /\ readers[r].raised = "none"
            /\ IF readers[r].op = "get_entry"
               THEN readers[r].result = PageEntries[readers[r].n + 1]
               ELSE \A i \in 1..Len(readers[r].result) :
                        /\ i <= Len(PageEntries)
                        /\ readers[r].result[i] = PageEntries[i]

\* the segments at indexes i and j are next to each other, the one ending
\* where the other starts
Adjacent(i, j) ==
    \/ j = i + 1 /\ segments[i + 1].bounds.end = segments[j + 1].bounds.start
    \/ i = j + 1 /\ segments[j + 1].bounds.end = segments[i + 1].bounds.start

\* C22: every head, next_head and prev_head call terminates: a call whose
\* walk is in its loop ends, returning or raising, after finitely many turns
\* (a walk that crosses from one segment into an adjacent one included), and
\* a call that returns, returns an address whose flags class is Code or Data.
C22_WalksTerminate ==
    /\ [](walk.pc = "returned"
            => And(get_flags(segments, buffer, walk.ea).flags, MS_CLS) \in {FF_CODE, FF_DATA})
    /\ (walk.pc = "loop") ~> (walk.pc \in {"returned", "raised"})

\* a walk that began in one segment has returned a head of an adjacent segment
C22_Witness ==
    /\ walk.pc = "returned"
    /\ \E i \in containing(segments, id1call.ea), j \in containing(segments, walk.ea) :
        Adjacent(i, j)

\* the cursor stands on an entry: a find, next() or prev() has returned
Positioned == last # NoCall /\ raised = "none"

\* the cursor c stands where this cursor stands: the same key, the same
\* entry_number and a path of the same page numbers
SamePosition(c) ==
    /\ c.raised = "none"
    /\ c.entry.key = entry.key
    /\ c.entry_number = entry_number
    /\ c.path = path

\* what the cursor holds after next() and then prev(), and after prev() and then next()
NextThenPrev ==
    LET c == Cursor_next(pages, path, entry, entry_number)
    IN  IF c.raised # "none" THEN c ELSE Cursor_prev(pages, c.path, c.entry, c.entry_number)

PrevThenNext ==
    LET c == Cursor_prev(pages, path, entry, entry_number)
    IN  IF c.raised # "none" THEN c ELSE Cursor_next(pages, c.path, c.entry, c.entry_number)

\* C23: next() and prev() are mutual inverses: from every position of the
\* cursor whose key is not the greatest key of the tree, next() followed by
\* prev() succeeds and leaves the cursor on the same key, the same
\* entry_number and a path of the same page numbers; and so does prev()
\* followed by next() from every position whose key is not the smallest.
C23_NextAndPrevAreInverses ==
    Positioned =>
        /\ entry.key # InOrderKeys[Len(InOrderKeys)] => SamePosition(NextThenPrev)
        /\ entry.key # InOrderKeys[1] => SamePosition(PrevThenNext)

\* the cursor has gone by next() from the last entry of a leaf two levels
\* down up to an entry of the root page, and prev() has brought it back to
\* where it stood
C23_Witness ==
    /\ Positioned
    /\ last.op = "prev"
    /\ Len(log) >= 3
    /\ log[Len(log) - 1].op = "next"
    /\ \E h \in BranchHolders(log[Len(log) - 1].key) : h.page = root_page
    /\ log[Len(log) - 2].key = entry.key
    /\ Len(path) = 3
    /\ entry_number = pages[Top(path)].entry_count - 1
    /\ SamePosition(NextThenPrev)
    /\ SamePosition(PrevThenNext)

====
